---- MODULE Spec2Model ----
(***************************************************************************)
(* Model of src/ws-server.ts, lines 1-299: the WhatsApp session bridge.    *)
(* One Baileys session (sock) is bridged to the WebSocket clients of wss.  *)
(* The module-level variables lastStatus / lastQR / lastInfo are the       *)
(* stored session state; startWhatsapp is guarded by the isStarting latch; *)
(* setTimeout(startWhatsapp, d) calls are the pending restart timers.      *)
(*                                                                         *)
(* Node runs every handler to its next await before anything else runs,    *)
(* so each action below is one such run-to-completion segment.             *)
(***************************************************************************)
EXTENDS Integers, Sequences, FiniteSets, TLC

\* ---------------------------------------------------------------- bounds
MaxSessions == 2      \* makeWASocket calls explored
MaxTimers   == 2      \* pending setTimeout(startWhatsapp, d) at one time
MaxClients  == 2      \* WebSocket clients explored
NumTokens   == 1      \* distinct pairing tokens the session may issue
MaxLogouts  == 1      \* POST /logout requests suspended at "await sock.logout()"
FairClients == 1      \* WebSocket clients explored with MaxTimers timers
FewTimers   == 1      \* pending timers explored with MaxClients clients

\* ------------------------------------------------------ program constants
LogoutDelay    == 2000
ReconnectDelay == 5000
RetryDelay     == 10000
LoggedOut      == 401     \* DisconnectReason.loggedOut

Delays  == {LogoutDelay, ReconnectDelay, RetryDelay}
\* statusCode of lastDisconnect.error: loggedOut, or anything else (408 is
\* DisconnectReason.connectionLost)
Reasons == {LoggedOut, 408}

\* ------------------------------------------------------------ data values
\* null (and undefined) is the empty tuple, so that every nullable value is a
\* sequence and equality is always defined.
Null == << >>

TokenNames == <<"abc", "def", "ghi">>
Tokens     == {TokenNames[i] : i \in 1..NumTokens}

\* sock.authState.creds.me: undefined, or {id, name?}.  id is "user:device",
\* kept as the pair <<user, device>>; name "" stands for a missing name.
Identities == { Null,
                <<"Alice", <<"15551230000", "1">>>>,
                <<"",      <<"15551230000", "1">>>> }

Clients == 1..MaxClients

VARIABLES
    sock,        \* index of the current session in sess, 0 is null
    sess,        \* sequence of session states, one per makeWASocket call
    lastQR,      \* stored challenge artifact or Null
    lastStatus,  \* "connected" | "disconnected"
    lastInfo,    \* stored account summary or Null
    phase,       \* the phase that the last write of lastStatus stands for:
                 \* qr branch (line 219) AwaitingChallenge, open branch (231)
                 \* Connected, close branch (249), logout (159), initially (61)
                 \* Disconnected
    isStarting,  \* single-flight latch
    inFlight,    \* startWhatsapp invocations suspended at their awaits
    timers,      \* delay -> number of pending setTimeout(startWhatsapp, delay)
    authExists,  \* the auth_info_baileys folder exists
    pendingQR,   \* tokens whose QRCode.toDataURL promise is still pending
    clients,     \* client -> "absent" | "open" | "closing"  (wss.clients)
    faulty,      \* client -> its send() throws
    sent,        \* client -> the messages the last handler segment sent to it
    seen,        \* open client -> the latest status, info and qr it was sent
    pinger,      \* client -> the setInterval made at its connection is still set
    logouts,     \* POST /logout requests suspended at "await sock.logout()"
    last         \* the handler segment that ran last ("open_after_qr": the open
                 \* branch, run right after a challenge was rendered)

vars == <<sock, sess, lastQR, lastStatus, lastInfo, phase, isStarting, inFlight,
          timers, authExists, pendingQR, clients, faulty, sent, seen, pinger, logouts,
          last>>

store == <<lastQR, lastStatus, lastInfo, phase>>
wsvars == <<clients, faulty>>

\* ------------------------------------------------------------ pure helpers
\* QRCode.toDataURL(qr): a PNG data URL that encodes the token.
ToDataURL(tok) == <<"data:image/png;base64", tok>>

\* me ? `${me.name || "Unknown"} (+${me.id.split(":")[0]})` : "Unknown"
AccountInfo(me) ==
    IF me = Null
    THEN <<"Unknown">>
    ELSE <<(IF me[1] = "" THEN "Unknown" ELSE me[1]), " (+", me[2][1], ")">>

\* the three wire messages; data is a tuple so that Null fits every type
StatusMsg(s) == [type |-> "status", data |-> <<s>>]
InfoMsg(i)   == [type |-> "info",   data |-> i]
QrMsg(q)     == [type |-> "qr",     data |-> q]

\* no send() call at all
NoneSent == [c \in Clients |-> << >>]

\* broadcast(message): forEach client, if OPEN, try { send } catch { log }
Broadcast(cl, fl, r, m) ==
    [c \in Clients |->
        IF cl[c] = "open" /\ ~fl[c] THEN Append(r[c], m) ELSE r[c]]

\* consecutive broadcast(...) calls of one handler, in program order
RECURSIVE BroadcastAll(_, _, _, _)
BroadcastAll(cl, fl, r, msgs) ==
    IF msgs = << >> THEN r
    ELSE BroadcastAll(cl, fl, Broadcast(cl, fl, r, Head(msgs)), Tail(msgs))

\* wss.on("connection"): the sends inside the try; the first throwing send
\* leaves through the catch
InitialState(f) ==
    IF f THEN << >>
    ELSE <<StatusMsg(lastStatus), InfoMsg(lastInfo)>>
         \o (IF lastQR # Null THEN <<QrMsg(lastQR)>> ELSE << >>)

\* what a client holds before it was sent anything
NoneSeen == [status |-> Null, info |-> Null, qr |-> Null]

\* the client takes the messages in the order they were sent (ws keeps order)
RECURSIVE Receive(_, _)
Receive(v, msgs) ==
    IF msgs = << >> THEN v
    ELSE IF Head(msgs).type \notin {"status", "info", "qr"}
         THEN Receive(v, Tail(msgs))
         ELSE Receive([v EXCEPT ![Head(msgs).type] = Head(msgs).data], Tail(msgs))

\* the clients' view after a segment: open clients take what was sent to them
SeenNext ==
    [c \in Clients |->
        IF clients'[c] = "open" THEN Receive(seen[c], sent'[c]) ELSE NoneSeen]

\* sock.ws.isOpen of a session, by its state
IsOpen(st) == st \in {"wsOpen", "open"}

\* the guard of POST /send, negated in the code: !sock || !sock.ws?.isOpen
SendGuard == sock # 0 /\ IsOpen(sess[sock])

TimerTotal == timers[LogoutDelay] + timers[ReconnectDelay] + timers[RetryDelay]

\* setTimeout(startWhatsapp, d)
SetTimeout(t, d) == [t EXCEPT ![d] = @ + 1]

\* ------------------------------------------------------------------- Init
\* The state when server.listen's callback has called startWhatsapp(), which
\* has taken the latch, made the auth folder and is suspended at its awaits.
Init ==
    /\ sock = 0
    /\ sess = << >>
    /\ lastQR = Null
    /\ lastStatus = "disconnected"
    /\ lastInfo = Null
    /\ phase = "Disconnected"
    /\ isStarting = TRUE
    /\ inFlight = 1
    /\ timers = [d \in Delays |-> 0]
    /\ authExists = TRUE
    /\ pendingQR = {}
    /\ clients = [c \in Clients |-> "absent"]
    /\ faulty = [c \in Clients |-> FALSE]
    /\ sent = NoneSent
    /\ seen = [c \in Clients |-> NoneSeen]
    /\ pinger = [c \in Clients |-> FALSE]
    /\ logouts = 0
    /\ last = "start_begin"

\* ------------------------------------------------------------ startWhatsapp
\* A timer fires and calls startWhatsapp: lines 178-196, up to the first await.
TimerFire(d) ==
    /\ timers[d] > 0
    /\ timers' = [timers EXCEPT ![d] = @ - 1]
    /\ IF isStarting
       THEN /\ last' = "start_skipped"
            /\ UNCHANGED <<isStarting, inFlight, authExists>>
       ELSE /\ isStarting' = TRUE
            /\ authExists' = TRUE
            /\ inFlight' = inFlight + 1
            /\ last' = "start_begin"
    /\ UNCHANGED <<sock, sess, store, pendingQR, wsvars, logouts>>
    /\ sent' = NoneSent
    /\ seen' = SeenNext
    /\ pinger' = pinger

\* lines 201-275: the awaits resolved; makeWASocket, handlers, latch released.
StartSucceed ==
    /\ inFlight > 0
    /\ Len(sess) < MaxSessions
    /\ sess' = Append(sess, "connecting")
    /\ sock' = Len(sess) + 1
    /\ isStarting' = FALSE
    /\ inFlight' = inFlight - 1
    /\ last' = "start_ok"
    /\ UNCHANGED <<store, timers, authExists, pendingQR, wsvars, logouts>>
    /\ sent' = NoneSent
    /\ seen' = SeenNext
    /\ pinger' = pinger

\* the catch without "isStarting = false"
StartFailKeepsLatch ==
    /\ inFlight > 0
    /\ TimerTotal < MaxTimers
    /\ isStarting' = isStarting
    /\ timers' = SetTimeout(timers, RetryDelay)
    /\ inFlight' = inFlight - 1
    /\ last' = "start_failed"
    /\ UNCHANGED <<sock, sess, store, authExists, pendingQR, wsvars, logouts>>
    /\ sent' = NoneSent
    /\ seen' = SeenNext
    /\ pinger' = pinger

\* lines 276-280: something in the try threw.
StartFail ==
    /\ inFlight > 0
    /\ TimerTotal < MaxTimers
    /\ isStarting' = FALSE
    /\ timers' = SetTimeout(timers, RetryDelay)
    /\ inFlight' = inFlight - 1
    /\ last' = "start_failed"
    /\ UNCHANGED <<sock, sess, store, authExists, pendingQR, wsvars, logouts>>
    /\ sent' = NoneSent
    /\ seen' = SeenNext
    /\ pinger' = pinger

\* ------------------------------------------------- connection.update handler
\* The session's websocket connects; no connection.update reaches the handler
\* with qr or open/close, so nothing of the server changes but sock.ws.isOpen.
WsOpened(s) ==
    /\ sess[s] = "connecting"
    /\ sess' = [sess EXCEPT ![s] = "wsOpen"]
    /\ last' = "ws_open"
    /\ UNCHANGED <<sock, store, isStarting, inFlight, timers, authExists,
                   pendingQR, wsvars, logouts>>
    /\ sent' = NoneSent
    /\ seen' = SeenNext
    /\ pinger' = pinger

\* lines 214-217: an update with qr; the handler suspends at QRCode.toDataURL.
QrEvent(s, tok) ==
    /\ sess[s] = "wsOpen"
    /\ tok \notin pendingQR
    /\ pendingQR' = pendingQR \cup {tok}
    /\ last' = "qr_event"
    /\ UNCHANGED <<sock, sess, store, isStarting, inFlight, timers, authExists,
                   wsvars, logouts>>
    /\ sent' = NoneSent
    /\ seen' = SeenNext
    /\ pinger' = pinger

\* lines 220-221
QrMessages(url) == <<QrMsg(url), StatusMsg("disconnected")>>

\* lines 218-222: toDataURL resolved.
QrRendered(tok) ==
    /\ tok \in pendingQR
    /\ pendingQR' = pendingQR \ {tok}
    /\ lastQR' = ToDataURL(tok)
    /\ lastStatus' = "disconnected"
    /\ phase' = "AwaitingChallenge"
    /\ sent' = BroadcastAll(clients, faulty, NoneSent, QrMessages(ToDataURL(tok)))
    /\ last' = "qr_ok"
    /\ UNCHANGED <<sock, sess, lastInfo, isStarting, inFlight, timers, authExists,
                   clients, faulty, logouts>>
    /\ seen' = SeenNext
    /\ pinger' = pinger

\* a catch that drops the stored challenge and tells the clients
QrFailedClears(tok) ==
    /\ tok \in pendingQR
    /\ pendingQR' = pendingQR \ {tok}
    /\ lastQR' = Null
    /\ sent' = BroadcastAll(clients, faulty, NoneSent, <<QrMsg(Null)>>)
    /\ last' = "qr_failed"
    /\ UNCHANGED <<sock, sess, lastStatus, lastInfo, phase, isStarting, inFlight,
                   timers, authExists, wsvars, logouts>>
    /\ seen' = SeenNext
    /\ pinger' = pinger

\* lines 223-225: toDataURL rejected; the catch only logs.
QrFailed(tok) ==
    /\ tok \in pendingQR
    /\ pendingQR' = pendingQR \ {tok}
    /\ last' = "qr_failed"
    /\ UNCHANGED <<sock, sess, store, isStarting, inFlight, timers, authExists,
                   wsvars, logouts>>
    /\ sent' = NoneSent
    /\ seen' = SeenNext
    /\ pinger' = pinger

\* lines 238-240
OpenMessages(info) == <<QrMsg(Null), StatusMsg("connected"), InfoMsg(info)>>

\* an open branch that forgets "lastQR = null"
OpenStateKeepsQR(me) == [qr |-> lastQR, status |-> "connected", info |-> AccountInfo(me)]

\* lines 230-236: what the open branch stores
OpenState(me) == [qr |-> Null, status |-> "connected", info |-> AccountInfo(me)]

\* lines 228-243: an update with connection "open"; me is sock.authState.creds.me.
OpenEvent(s, me) ==
    /\ sess[s] = "wsOpen"
    /\ sess' = [sess EXCEPT ![s] = "open"]
    /\ lastQR' = OpenState(me).qr
    /\ lastStatus' = OpenState(me).status
    /\ lastInfo' = OpenState(me).info
    /\ phase' = "Connected"
    /\ sent' = BroadcastAll(clients, faulty, NoneSent, OpenMessages(OpenState(me).info))
    /\ last' = IF last = "qr_ok" THEN "open_after_qr" ELSE "open"
    /\ UNCHANGED <<sock, isStarting, inFlight, timers, authExists, pendingQR,
                   clients, faulty, logouts>>
    /\ seen' = SeenNext
    /\ pinger' = pinger

\* lines 252-253 and 162-163
DisconnectedMessages == <<StatusMsg("disconnected"), InfoMsg(Null)>>

\* every close taken for a transient one
ShouldReconnectAlways(reason) == TRUE

\* line 255
ShouldReconnect(reason) == reason # LoggedOut

\* a close branch whose logged-out arm schedules no restart
CloseHandlerNoRestart(reason) ==
    /\ lastStatus' = "disconnected"
    /\ lastInfo' = Null
    /\ lastQR' = lastQR
    /\ phase' = "Disconnected"
    /\ sent' = BroadcastAll(clients, faulty, NoneSent, DisconnectedMessages)
    /\ isStarting' = FALSE
    /\ IF ShouldReconnect(reason)
       THEN /\ timers' = SetTimeout(timers, ReconnectDelay)
            /\ authExists' = authExists
       ELSE /\ timers' = timers
            /\ authExists' = FALSE
    /\ last' = IF reason = LoggedOut THEN "close_terminal" ELSE "close_transient"

\* lines 245-272: the close branch, for a session that is current or not.
CloseHandler(reason) ==
    /\ lastStatus' = "disconnected"
    /\ lastInfo' = Null
    /\ lastQR' = lastQR
    /\ phase' = "Disconnected"
    /\ sent' = BroadcastAll(clients, faulty, NoneSent, DisconnectedMessages)
    /\ isStarting' = FALSE
    /\ IF ShouldReconnect(reason)
       THEN /\ timers' = SetTimeout(timers, ReconnectDelay)
            /\ authExists' = authExists
       ELSE /\ timers' = SetTimeout(timers, LogoutDelay)
            /\ authExists' = FALSE
    /\ last' = IF reason = LoggedOut THEN "close_terminal" ELSE "close_transient"

\* The session ends, by itself or through sock.logout() (reason loggedOut),
\* and emits connection "close".
CloseEvent(s, reason) ==
    /\ sess[s] # "closed"
    /\ TimerTotal < MaxTimers
    /\ sess' = [sess EXCEPT ![s] = "closed"]
    /\ CloseHandler(reason)
    /\ UNCHANGED <<sock, inFlight, pendingQR, clients, faulty, logouts>>
    /\ seen' = SeenNext
    /\ pinger' = pinger

\* ------------------------------------------------------------ POST /logout
\* lines 144-148 with sock set: sock.logout() is called on the current session
\* and the handler suspends at the await. What logout() does to its session is
\* the session's own event: a "close" with loggedOut (CloseEvent), emitted
\* before or after the awaited promise settles.
LogoutRequest ==
    /\ sock # 0
    /\ logouts < MaxLogouts
    /\ logouts' = logouts + 1
    /\ last' = "logout_request"
    /\ UNCHANGED <<sock, sess, store, isStarting, inFlight, timers, authExists,
                   pendingQR, wsvars>>
    /\ sent' = NoneSent
    /\ seen' = SeenNext
    /\ pinger' = pinger

\* lines 151-168: the auth folder removed, the store reset and broadcast, the
\* restart scheduled, the answer 200.
LogoutReset ==
    /\ TimerTotal < MaxTimers
    /\ authExists' = FALSE
    /\ lastQR' = Null
    /\ lastStatus' = "disconnected"
    /\ lastInfo' = Null
    /\ phase' = "Disconnected"
    /\ sent' = BroadcastAll(clients, faulty, NoneSent, DisconnectedMessages)
    /\ timers' = SetTimeout(timers, LogoutDelay)
    /\ last' = "logout"
    /\ UNCHANGED <<sock, sess, isStarting, inFlight, pendingQR, clients, faulty>>
    /\ seen' = SeenNext
    /\ pinger' = pinger

\* sock.logout() resolved and the request resumes, whatever sock is by now
\* and whether or not the session it was called on has emitted its "close".
LogoutResolved ==
    /\ logouts > 0
    /\ LogoutReset
    /\ logouts' = logouts - 1

\* lines 147-168 with sock null: nothing is awaited.
LogoutNoSock ==
    /\ sock = 0
    /\ LogoutReset
    /\ logouts' = logouts

\* lines 148 and 169-172: sock.logout() rejected; the catch answers 500.
LogoutThrow ==
    /\ logouts > 0
    /\ logouts' = logouts - 1
    /\ last' = "logout_failed"
    /\ UNCHANGED <<sock, sess, store, isStarting, inFlight, timers, authExists,
                   pendingQR, wsvars>>
    /\ sent' = NoneSent
    /\ seen' = SeenNext
    /\ pinger' = pinger

\* -------------------------------------------------------------- POST /send
\* lines 119-140: 400 when the guard fails, else sock.sendMessage is called
\* (and the answer is 200, or 500 when it throws).
Send ==
    /\ last' = IF ~SendGuard THEN "send_400" ELSE "send_dispatched"
    /\ UNCHANGED <<sock, sess, store, isStarting, inFlight, timers, authExists,
                   pendingQR, wsvars, logouts>>
    /\ sent' = NoneSent
    /\ seen' = SeenNext
    /\ pinger' = pinger

\* ------------------------------------------------------- WebSocket clients
\* a ping frame on the client's socket
PingMsg == [type |-> "ping", data |-> Null]

\* A slot stands for one client object: it is taken again only when the
\* client is gone from wss.clients and its interval has been cleared.
FreeSlot(c) == clients[c] = "absent" /\ ~pinger[c]

\* a connection handler that broadcasts the state instead of sending it to
\* the new client alone
RegisterBroadcasts(c, f) ==
    /\ FreeSlot(c)
    /\ \A d \in Clients : d < c => ~FreeSlot(d)
    /\ clients' = [clients EXCEPT ![c] = "open"]
    /\ faulty' = [faulty EXCEPT ![c] = f]
    /\ sent' = BroadcastAll(clients', faulty', NoneSent, InitialState(FALSE))
    /\ last' = "register"
    /\ UNCHANGED <<sock, sess, store, isStarting, inFlight, timers, authExists,
                   pendingQR, logouts>>
    /\ seen' = SeenNext
    /\ pinger' = [pinger EXCEPT ![c] = TRUE]

\* lines 79-115: a client connects (the lowest free slot; wss.clients is a
\* set); it is sent the stored state and its keep-alive interval is set.
Register(c, f) ==
    /\ FreeSlot(c)
    /\ \A d \in Clients : d < c => ~FreeSlot(d)
    /\ clients' = [clients EXCEPT ![c] = "open"]
    /\ faulty' = [faulty EXCEPT ![c] = f]
    /\ sent' = [NoneSent EXCEPT ![c] = InitialState(f)]
    /\ last' = "register"
    /\ UNCHANGED <<sock, sess, store, isStarting, inFlight, timers, authExists,
                   pendingQR, logouts>>
    /\ seen' = SeenNext
    /\ pinger' = [pinger EXCEPT ![c] = TRUE]

\* the client's readyState leaves OPEN; it is still in wss.clients
ClientClosing(c) ==
    /\ clients[c] = "open"
    /\ clients' = [clients EXCEPT ![c] = "closing"]
    /\ faulty' = [faulty EXCEPT ![c] = FALSE]   \* it is never sent to again
    /\ last' = "client_closing"
    /\ UNCHANGED <<sock, sess, store, isStarting, inFlight, timers, authExists,
                   pendingQR, logouts>>
    /\ sent' = NoneSent
    /\ seen' = SeenNext
    /\ pinger' = pinger

\* lines 100-102: "close" of the client; ws has removed it from wss.clients
ClientClosed(c) ==
    /\ clients[c] # "absent"
    /\ clients' = [clients EXCEPT ![c] = "absent"]
    /\ faulty' = [faulty EXCEPT ![c] = FALSE]
    /\ sent' = NoneSent
    /\ last' = "client_closed"
    /\ UNCHANGED <<sock, sess, store, isStarting, inFlight, timers, authExists,
                   pendingQR, logouts>>
    /\ seen' = SeenNext
    /\ pinger' = pinger

\* an interval callback that pings whatever the readyState and never clears
PingTickBlind(c) ==
    /\ pinger[c]
    /\ sent' = [NoneSent EXCEPT ![c] = <<PingMsg>>]
    /\ last' = "ping"
    /\ UNCHANGED <<sock, sess, store, isStarting, inFlight, timers, authExists,
                   pendingQR, wsvars, logouts>>
    /\ seen' = SeenNext
    /\ pinger' = pinger

\* lines 109-115: the interval of a client fires.
PingTick(c) ==
    /\ pinger[c]
    /\ IF clients[c] = "open"
       THEN /\ sent' = [NoneSent EXCEPT ![c] = <<PingMsg>>]
            /\ pinger' = pinger
            /\ last' = "ping"
       ELSE /\ sent' = NoneSent
            /\ pinger' = [pinger EXCEPT ![c] = FALSE]
            /\ last' = "ping_cleared"
    /\ UNCHANGED <<sock, sess, store, isStarting, inFlight, timers, authExists,
                   pendingQR, wsvars, logouts>>
    /\ seen' = SeenNext

\* ------------------------------------------------------------ specification
Next ==
    \/ \E d \in Delays : TimerFire(d)
    \/ StartSucceed
    \/ StartFail
    \/ \E s \in 1..Len(sess) : WsOpened(s)
    \/ \E s \in 1..Len(sess), tok \in Tokens : QrEvent(s, tok)
    \/ \E tok \in Tokens : QrRendered(tok)
    \/ \E tok \in Tokens : QrFailed(tok)
    \/ \E s \in 1..Len(sess), me \in Identities : OpenEvent(s, me)
    \/ \E s \in 1..Len(sess), reason \in Reasons : CloseEvent(s, reason)
    \/ LogoutRequest
    \/ LogoutResolved
    \/ LogoutNoSock
    \/ LogoutThrow
    \/ Send
    \/ \E c \in Clients, f \in BOOLEAN : Register(c, f)
    \/ \E c \in Clients : ClientClosing(c)
    \/ \E c \in Clients : ClientClosed(c)
    \/ \E c \in Clients : PingTick(c)

Spec == Init /\ [][Next]_vars

\* The steps of Next with no more than FairClients clients registered; no
\* client step reads or writes a variable of the sessions, starts or timers.
NextFair == Next /\ \A c \in Clients : c > FairClients => clients'[c] = "absent"

\* The sessions, starts, timers and requests in full, with FairClients clients.
SpecSessions == Init /\ [][NextFair]_vars

\* The steps of Next with no more than FewTimers timers pending.
NextClients == Next /\ TimerTotal' <= FewTimers

\* The clients in full, with FewTimers timers.
SpecClients == Init /\ [][NextClients]_vars

\* The event loop runs every timer that is due and resumes every handler whose
\* awaited promise has settled: the timers of setTimeout(startWhatsapp, d), the
\* awaits of startWhatsapp (lines 187-201).
SpecFair ==
    /\ SpecSessions
    /\ WF_vars(\E d \in Delays : TimerFire(d))
    /\ WF_vars(StartSucceed \/ StartFail)

\* ------------------------------------------------------------- properties
Good(c)    == clients[c] = "open" /\ ~faulty[c]
Failing(c) == clients[c] = "open" /\ faulty[c]

\* the handler segments that call broadcast
BroadcastTags ==
    {"qr_ok", "open", "open_after_qr", "close_transient", "close_terminal", "logout"}

\* C1: in every reachable state, phase AwaitingChallenge implies a stored
\* challenge, phase Connected implies a stored account and no challenge, and
\* phase Disconnected implies neither challenge nor account.
StoreInvariant ==
    /\ phase = "AwaitingChallenge" => lastQR # Null
    /\ phase = "Connected" => lastInfo # Null /\ lastQR = Null
    /\ phase = "Disconnected" => lastQR = Null /\ lastInfo = Null

\* C2: single-flight: a start request that arrives while another start is in
\* progress is a no-op, so never are two startWhatsapp invocations on their way
\* to makeWASocket at the same time.
SingleFlight == inFlight <= 1

\* C3: processing a close with cause loggedOut discards the auth folder and
\* schedules exactly one start (after LogoutDelay); processing a close with any
\* other cause schedules exactly one start after ReconnectDelay and leaves the
\* auth folder alone.
ReconnectPolicy ==
    [][ /\ last' = "close_terminal" =>
             /\ authExists' = FALSE
             /\ timers' = [timers EXCEPT ![LogoutDelay] = @ + 1]
        /\ last' = "close_transient" =>
             /\ authExists' = authExists
             /\ timers' = [timers EXCEPT ![ReconnectDelay] = @ + 1]
      ]_vars

\* a terminal close has just been processed (the folder existed: a start had
\* recreated it) while the timer of an earlier transient close is still pending
ReconnectPolicyWitness ==
    /\ last = "close_terminal"
    /\ ~authExists
    /\ timers[LogoutDelay] = 1
    /\ timers[ReconnectDelay] = 1

\* C4: a client that connects while the phase is Connected is sent exactly the
\* status "connected" and the stored account, once each, and no challenge and
\* no "disconnected" status (a client whose send throws is sent nothing).
LateJoin ==
    [][ \A c \in Clients :
            (last' = "register" /\ clients[c] = "absent" /\ clients'[c] = "open"
                /\ phase = "Connected")
            => /\ lastInfo # Null
               /\ sent'[c] = IF faulty'[c] THEN << >>
                             ELSE <<StatusMsg("connected"), InfoMsg(lastInfo)>>
               /\ \A i \in 1..Len(sent'[c]) :
                      /\ sent'[c][i].type # "qr"
                      /\ sent'[c][i] # StatusMsg("disconnected")
      ]_vars

\* a working client has just connected in phase Connected and got the snapshot
LateJoinWitness ==
    /\ last = "register"
    /\ phase = "Connected"
    /\ \E c \in Clients :
          Good(c) /\ sent[c] = <<StatusMsg("connected"), InfoMsg(lastInfo)>>

\* what the handler segment that ran last has broadcast, from the stored state
Delivered ==
    CASE last = "qr_ok" -> <<QrMsg(lastQR), StatusMsg("disconnected")>>
      [] last \in {"open", "open_after_qr"} ->
            <<QrMsg(Null), StatusMsg("connected"), InfoMsg(lastInfo)>>
      [] OTHER -> <<StatusMsg("disconnected"), InfoMsg(Null)>>

\* C5: during a broadcast in which a client's send throws, every
\* other open client gets the broadcast and the failing client is removed from
\* the registry.
FanoutIsolationAndRemoval ==
    [][ (last' \in BroadcastTags /\ \E f \in Clients : Failing(f))
        => \A c \in Clients :
              /\ Good(c) => sent'[c] = Delivered'
              /\ Failing(c) => clients'[c] = "absent"
      ]_vars

\* C6: when a challenge is rendered and the open event is processed
\* next, every client live throughout is sent, in this order, the phase event
\* of the challenge, the challenge artifact, then status "connected", the
\* account and the null challenge.
ScenarioOrderPhaseFirst ==
    [][ \A c \in Clients :
            (last = "qr_ok" /\ last' = "open_after_qr" /\ Good(c))
            => sent[c] \o sent'[c] =
                 << StatusMsg("disconnected"), QrMsg(lastQR),
                    StatusMsg("connected"), InfoMsg(lastInfo'), QrMsg(Null) >>
      ]_vars

\* C7: POST /logout, whether sock.logout() succeeds or throws, resets the
\* stored state to disconnected with no challenge and no account, broadcasts
\* it, and schedules a restart.
LogoutAlwaysRestarts ==
    [][ last' \in {"logout", "logout_failed"} =>
          /\ lastStatus' = "disconnected" /\ lastQR' = Null /\ lastInfo' = Null
          /\ \A c \in Clients : Good(c) =>
                sent'[c] = <<StatusMsg("disconnected"), InfoMsg(Null)>>
          /\ timers' = [timers EXCEPT ![LogoutDelay] = @ + 1]
      ]_vars

\* C8: the guard of POST /send passes exactly when the stored phase is
\* Connected, and a request is dispatched only then.
SendableIffConnected ==
    /\ SendGuard <=> phase = "Connected"
    /\ last = "send_dispatched" => phase = "Connected"

\* C9: a failed start leaves the stored state alone, broadcasts nothing,
\* releases the latch and schedules exactly one retry, after RetryDelay.
StartupFailure ==
    [][ last' = "start_failed" =>
          /\ UNCHANGED <<lastQR, lastStatus, lastInfo, phase>>
          /\ sent' = NoneSent
          /\ isStarting' = FALSE
          /\ timers' = [timers EXCEPT ![RetryDelay] = @ + 1]
      ]_vars

\* a start has just failed while an account and a working client were there
StartupFailureWitness ==
    /\ last = "start_failed"
    /\ ~isStarting
    /\ timers[RetryDelay] = 1
    /\ lastInfo # Null
    /\ \E c \in Clients : Good(c)

\* C10: a failed rendering leaves the stored state alone and broadcasts
\* nothing, and the same challenge can be issued and rendered again; every
\* rendering that succeeds is stored and broadcast.
TransformFailure ==
    [][ /\ last' = "qr_failed" =>
             /\ UNCHANGED <<lastQR, lastStatus, lastInfo, phase>>
             /\ sent' = NoneSent
             /\ pendingQR' \subseteq pendingQR /\ pendingQR' # pendingQR
        /\ last' = "qr_ok" =>
             /\ lastQR' \in {ToDataURL(t) : t \in pendingQR}
             /\ lastStatus' = "disconnected"
             /\ \A c \in Clients : Good(c) =>
                   sent'[c] = <<QrMsg(lastQR'), StatusMsg("disconnected")>>
      ]_vars

\* a rendering has just failed while an earlier challenge was stored and a
\* working client was listening
TransformFailureWitness ==
    /\ last = "qr_failed"
    /\ lastQR # Null
    /\ phase = "AwaitingChallenge"
    /\ \E c \in Clients : Good(c)

\* C11: a client that connects is sent the stored state and no other client is
\* sent anything by that; a client connecting, closing or being removed leaves
\* the stored status, challenge and account as they are.
RegisterIsPrivate ==
    [][ last' \in {"register", "client_closing", "client_closed"} =>
          /\ UNCHANGED <<lastQR, lastStatus, lastInfo, phase>>
          /\ \A c \in Clients :
                IF last' = "register" /\ clients[c] = "absent" /\ clients'[c] = "open"
                THEN sent'[c] = IF faulty'[c] THEN << >>
                                ELSE <<StatusMsg(lastStatus), InfoMsg(lastInfo)>>
                                     \o (IF lastQR = Null THEN << >>
                                         ELSE <<QrMsg(lastQR)>>)
                ELSE sent'[c] = << >>
      ]_vars

\* a second client has just connected next to a working one, with a challenge
\* stored, and only the new one was sent the state
RegisterIsPrivateWitness ==
    /\ last = "register"
    /\ lastQR # Null
    /\ \E c, d \in Clients :
          /\ c # d
          /\ Good(d) /\ sent[d] = << >>
          /\ Good(c) /\ Len(sent[c]) = 3

LiveSessions == {s \in 1..Len(sess) : sess[s] # "closed"}

\* C12: a pending restart timer is cancelled when a logout or a new start
\* preempts it, so never is a session started next to one that is still alive.
OneLiveSession == Cardinality(LiveSessions) <= 1

\* C15: after the open branch and after the close branch have run, the stored
\* challenge is null.
ChallengeClearedOnLeave ==
    [][ last' \in {"open", "open_after_qr", "close_transient", "close_terminal"}
        => lastQR' = Null ]_vars

\* C16: from the open event on, until the next close or logout, the stored
\* phase stays Connected and the stored challenge stays null, and no challenge
\* artifact and no "disconnected" status is broadcast, also when a rendering
\* that was pending at the open completes.
ConnectedIsStable ==
    [][ (phase = "Connected" /\ pendingQR # {}
            /\ last' \notin {"close_transient", "close_terminal", "logout"})
        => /\ phase' = "Connected"
           /\ lastQR' = Null
           /\ \A c \in Clients : \A i \in 1..Len(sent'[c]) :
                 /\ sent'[c][i] # StatusMsg("disconnected")
                 /\ sent'[c][i].type = "qr" => sent'[c][i].data = Null
      ]_vars

\* C17: in everything one handler segment sends to a client, an account that
\* is not null comes after the status "connected".
AccountAfterConnected ==
    [][ \A c \in Clients : \A i \in 1..Len(sent'[c]) :
          (sent'[c][i].type = "info" /\ sent'[c][i].data # Null)
          => \E j \in 1..(i - 1) : sent'[c][j] = StatusMsg("connected")
      ]_vars

\* C18: the latch is set exactly while a startWhatsapp invocation is between
\* taking it and the end of its try or catch.
LatchAccurate == isStarting <=> inFlight > 0

\* C19: an open or close event of a session that is no longer the current one
\* changes nothing of the stored state, broadcasts nothing and schedules no
\* start.
StaleSessionIgnored ==
    [][ (\E s \in 1..Len(sess) :
            s # sock /\ sess'[s] # sess[s]
            /\ last' \in {"open", "open_after_qr", "close_transient", "close_terminal"})
        => /\ UNCHANGED <<lastQR, lastStatus, lastInfo, phase>>
           /\ sent' = NoneSent
           /\ timers' = timers
      ]_vars

\* C14: whenever no handler is suspended, every working open client holds, from
\* its snapshot and the broadcasts since, the stored status, challenge and
\* account.
Converged ==
    (pendingQR = {} /\ logouts = 0) =>
        \A c \in Clients : Good(c) =>
            /\ seen[c].status = <<lastStatus>>
            /\ seen[c].info = lastInfo
            /\ seen[c].qr = lastQR

\* C13: there is always a live session, a start in progress or a start
\* scheduled; and after every close of a session (terminal or transient) and
\* after every failed start, startWhatsapp later takes the latch and begins a
\* new start.
NeverDead == LiveSessions # {} \/ inFlight > 0 \/ TimerTotal > 0

RestartDue == last \in {"close_terminal", "close_transient", "start_failed"}

EventualRestart == []NeverDead /\ (RestartDue ~> last = "start_begin")

\* every session made so far has closed, and the one timer that was pending
\* has fired and begun the only start in progress
EventualRestartWitness ==
    /\ last = "start_begin"
    /\ sess # << >>
    /\ LiveSessions = {}
    /\ TimerTotal = 0
    /\ inFlight = 1

\* C20: every open client has its interval; the interval pings its own client
\* and only while that client is open; the first tick after the client left
\* OPEN clears the interval and sends nothing, and a cleared interval is not
\* set again for that client.
LivenessMonitor ==
    [][ /\ \A c \in Clients : clients'[c] = "open" => pinger'[c]
        /\ \A c \in Clients :
              (\E i \in 1..Len(sent'[c]) : sent'[c][i] = PingMsg)
              => /\ last' = "ping"
                 /\ clients[c] = "open" /\ pinger[c]
                 /\ sent' = [NoneSent EXCEPT ![c] = <<PingMsg>>]
        /\ last' = "ping" => pinger' = pinger
        /\ last' = "ping_cleared" =>
              /\ sent' = NoneSent
              /\ \E c \in Clients :
                    /\ clients[c] # "open" /\ pinger[c]
                    /\ pinger' = [pinger EXCEPT ![c] = FALSE]
        /\ \A c \in Clients :
              /\ (pinger[c] /\ ~pinger'[c]) => last' = "ping_cleared"
              /\ (~pinger[c] /\ pinger'[c]) =>
                    last' = "register" /\ clients[c] = "absent"
      ]_vars

\* the interval of a client that has gone has just been cleared at its tick,
\* while another client is open with its own interval
LivenessMonitorWitness ==
    /\ last = "ping_cleared"
    /\ \E c, d \in Clients :
          /\ clients[c] = "absent" /\ ~pinger[c]
          /\ clients[d] = "open" /\ pinger[d]
====
